---- MODULE Spec2Model ----
(***************************************************************************)
(* OutlierRemoverIQR (src/utils/preprocessing.py): an estimator object     *)
(* whose fit() stores the selected columns and their IQR cutoffs on the    *)
(* object and whose transform() keeps the rows of a DataFrame that lie     *)
(* inside the cutoffs on every selected column.                            *)
(*                                                                         *)
(* Numbers.  Frame cells hold integers or NaN.  Every statistic is held in *)
(* eighths (the cell <<v>> of a statistic stands for v/8): with integer    *)
(* data the interpolated quartiles are multiples of 1/4 and the cutoffs    *)
(* multiples of 1/8, all exactly representable as binary floats, so the    *)
(* fixed-point values are the floats pandas computes.                      *)
(*                                                                         *)
(* Scope.  One estimator object: the class keeps all state on self.        *)
(* Column lists hold no repeated name, and every column is numeric.        *)
(***************************************************************************)
EXTENDS Integers, Sequences, FiniteSets, TLC

VARIABLES
    frames,              \* the caller's DataFrames, by name
    caller_columns,      \* content of the caller's own list object of column names
    numerical_columns_,  \* self.numerical_columns_
    stats_,              \* self.stats_
    out,                 \* what the last call did and returned
    fitted_on            \* history: the frame and columns of the last fit that returned

vars == <<frames, caller_columns, numerical_columns_, stats_, out, fitted_on>>

\* ------------------------------------------------------------------ cells

NaN == <<>>
Num(v) == <<v>>
IsNaN(c) == c = <<>>
Val(c) == c[1]

Range(s) == {s[i] : i \in DOMAIN s}
NoRepeat(s) == \A i, j \in DOMAIN s : i # j => s[i] # s[j]

Names == {"x", "y"}
StatNames == {"Q1", "Q3", "IQR", "lower_cutoff", "upper_cutoff"}

\* Every list of column names (no name twice).
ColumnLists == {s \in UNION {[1..n -> Names] : n \in 0..Cardinality(Names)} : NoRepeat(s)}

\* ----------------------------------------------------------------- frames

\* A DataFrame: its column labels in order and its rows in order; a row maps
\* each column label to a cell.
MkFrame(columns, rows) == [columns |-> columns, rows |-> rows]
NoFrame == [columns |-> <<>>, rows |-> <<>>]

HasColumns(df, cols) == Range(cols) \subseteq Range(df.columns)

\* The non-missing values of a column, in row order.
RECURSIVE Present(_, _)
Present(rows, c) ==
    IF rows = <<>> THEN <<>>
    ELSE LET r == Head(rows) IN
         (IF IsNaN(r[c]) THEN <<>> ELSE <<Val(r[c])>>) \o Present(Tail(rows), c)

\* --------------------------------------------------------------- quantile

\* Variant without interpolation (the lower neighbour).
QuantileLower(values, k) ==
    IF values = <<>> THEN NaN
    ELSE LET sorted == SortSeq(values, LAMBDA a, b : a < b)
             pos    == (Len(values) - 1) * k
             i      == (pos \div 4) + 1
         IN  Num(8 * sorted[i])

\* Series.quantile(k/4), linear interpolation over the sorted non-missing
\* values, in eighths; NaN when there is none.
Quantile(values, k) ==
    IF values = <<>> THEN NaN
    ELSE LET sorted == SortSeq(values, LAMBDA a, b : a < b)
             pos    == (Len(values) - 1) * k
             i      == (pos \div 4) + 1
             r      == pos % 4
             lo     == sorted[i]
             hi     == IF r = 0 THEN lo ELSE sorted[i + 1]
         IN  Num(8 * lo + 2 * r * (hi - lo))

\* Float arithmetic on statistics: NaN in, NaN out.
Sub(a, b) == IF IsNaN(a) \/ IsNaN(b) THEN NaN ELSE Num(Val(a) - Val(b))
Add(a, b) == IF IsNaN(a) \/ IsNaN(b) THEN NaN ELSE Num(Val(a) + Val(b))
\* 1.5 * a ; a is a difference of quartiles, an even number of eighths.
Times15(a) == IF IsNaN(a) THEN NaN ELSE Num((3 * Val(a)) \div 2)

\* ------------------------------------------------------------------- fit

\* self.numerical_columns_ is unset, holds a list of its own, or IS the
\* caller's list object (line 10 stores the reference it was given).
Unset == [kind |-> "unset", val |-> <<>>]
Own(cols) == [kind |-> "own", val |-> cols]
Alias == [kind |-> "alias", val |-> <<>>]

\* What fit can be handed as numerical_columns: one name, a list nobody else
\* holds, or the caller's list object.
StrArg(n) == [kind |-> "str", val |-> <<n>>]
ListArg(cols) == [kind |-> "list", val |-> cols]
CallerArg == [kind |-> "caller", val |-> <<>>]

\* Lines 7-10: a str becomes a one-element list, anything else is stored as is.
Normalize(arg, caller) ==
    IF arg.kind = "str" THEN Own(<<arg.val[1]>>)
    ELSE IF arg.kind = "list" THEN Own(arg.val)
    ELSE Alias

\* The list self.numerical_columns_ names, as it reads now.
Columns(nc, caller) == IF nc.kind = "alias" THEN caller ELSE nc.val

\* self.stats_: a DataFrame indexed by column name; data maps each statistic
\* it holds to a Series over the index.
NoSeries == [s \in {} |-> NaN]
NoStats == [set |-> FALSE, index |-> <<>>, data |-> NoSeries]
\* Line 12: pd.DataFrame(index=self.numerical_columns_), no statistic yet.
EmptyStats(cols) == [set |-> TRUE, index |-> cols, data |-> NoSeries]
\* self.stats_[name] = series
SetColumn(st, name, series) ==
    [st EXCEPT !.data = [s \in (DOMAIN st.data) \cup {name} |->
                            IF s = name THEN series ELSE st.data[s]]]

\* df[cols].quantile(k/4): one interpolated quantile per selected column.
FrameQuantile(df, cols, k) ==
    [c \in Range(cols) |-> Quantile(Present(df.rows, c), k)]

\* Line 16
LowerCutoff(q1, iqr) == Sub(q1, Times15(iqr))
\* Line 17
UpperCutoff(q3, iqr) == Add(q3, Times15(iqr))

\* Lines 12-17, for a frame that has every selected column.
FitStats(df, cols) ==
    LET C   == Range(cols)
        q1  == FrameQuantile(df, cols, 1)
        q3  == FrameQuantile(df, cols, 3)
        iqr == [c \in C |-> Sub(q3[c], q1[c])]
        s1  == SetColumn(EmptyStats(cols), "Q1", q1)
        s2  == SetColumn(s1, "Q3", q3)
        s3  == SetColumn(s2, "IQR", iqr)
        s4  == SetColumn(s3, "lower_cutoff", [c \in C |-> LowerCutoff(q1[c], iqr[c])])
    IN  SetColumn(s4, "upper_cutoff", [c \in C |-> UpperCutoff(q3[c], iqr[c])])

\* Lines 12-17 on any frame: df[...] at line 13 raises KeyError for a missing
\* column, after line 12 has already replaced self.stats_.
StatsAfterFit(df, cols) ==
    IF HasColumns(df, cols) THEN FitStats(df, cols) ELSE EmptyStats(cols)

\* Variant: fit hands back a fresh object.
FitReturnCopy == "copy"
\* Line 19: return self
FitReturn == "self"

\* -------------------------------------------------------------- transform

\* A frame cell (an integer or NaN) against a statistic held in eighths; a
\* comparison with NaN on either side is False.
\* Variant: strict lower bound.
GeStrict(cell, stat) == ~IsNaN(cell) /\ ~IsNaN(stat) /\ 8 * Val(cell) > Val(stat)
\* Line 23: >=
Ge(cell, stat) == ~IsNaN(cell) /\ ~IsNaN(stat) /\ 8 * Val(cell) >= Val(stat)
\* Line 24: <=
Le(cell, stat) == ~IsNaN(cell) /\ ~IsNaN(stat) /\ 8 * Val(cell) =< Val(stat)

\* Variants: cutoffs recomputed from the frame being filtered.
LowerUsedRefit(st, df, cols) == FitStats(df, cols).data["lower_cutoff"]
\* Line 23: the lower cutoffs transform compares against are self.stats_'s.
LowerUsed(st, df, cols) == st.data["lower_cutoff"]
UpperUsedRefit(st, df, cols) == FitStats(df, cols).data["upper_cutoff"]
\* Line 24: likewise the upper cutoffs.
UpperUsed(st, df, cols) == st.data["upper_cutoff"]

\* Lines 22-25: one boolean per row and selected column.
Masks(df, cols, lower, upper) ==
    [i \in DOMAIN df.rows |->
        [c \in Range(cols) |-> Ge(df.rows[i][c], lower[c]) /\ Le(df.rows[i][c], upper[c])]]

\* Variant: any instead of all.
FinalMaskAny(masks, cols) ==
    [i \in DOMAIN masks |-> \E c \in Range(cols) : masks[i][c]]
\* Line 26: masks.all(axis=1); True for a row when there is no column at all.
FinalMask(masks, cols) ==
    [i \in DOMAIN masks |-> \A c \in Range(cols) : masks[i][c]]

RECURSIVE Keep(_, _, _)
Keep(rows, mask, i) ==
    IF i > Len(rows) THEN <<>>
    ELSE (IF mask[i] THEN <<rows[i]>> ELSE <<>>) \o Keep(rows, mask, i + 1)

\* Variant: only the selected columns survive.
BoolIndexSelected(df, mask, cols) ==
    MkFrame(cols, [i \in DOMAIN Keep(df.rows, mask, 1) |->
                      [c \in Range(cols) |-> Keep(df.rows, mask, 1)[i][c]]])
\* Line 27: df[final_mask], a new frame with the rows whose mask is True.
BoolIndex(df, mask, cols) == MkFrame(df.columns, Keep(df.rows, mask, 1))

Raised(err) == [kind |-> err, value |-> NoFrame]
Returned(df) == [kind |-> "ok", value |-> df]

\* Variant: an unfitted filter lets the frame through.
UnfittedPassThrough(nc, df) == Returned(df)
\* Line 23, self.numerical_columns_ on an object fit never touched.
Unfitted(nc, df) == Raised("AttributeError")

\* Lines 21-27: what transform(df) raises or returns.
TransformCall(nc, st, caller, df) ==
    IF nc.kind = "unset" THEN Unfitted(nc, df)
    ELSE LET cols == Columns(nc, caller) IN
         IF ~HasColumns(df, cols) THEN Raised("KeyError")             \* df[cols]
         ELSE IF "lower_cutoff" \notin DOMAIN st.data THEN Raised("KeyError")
         ELSE IF cols # st.index THEN Raised("ValueError")            \* not aligned
         ELSE LET masks == Masks(df, cols, LowerUsed(st, df, cols), UpperUsed(st, df, cols))
              IN  Returned(BoolIndex(df, FinalMask(masks, cols), cols))

\* ------------------------------------------------------------- the inputs

MaxRows == 2

XOnly(values) == MkFrame(<<"x">>, [i \in DOMAIN values |-> [x |-> Num(values[i])]])
Row(x, y) == [x |-> x, y |-> y]

Scenario7 == XOnly(<<10, 12, 12, 13, 12, 11, 100>>)
Scenario10 == XOnly(<<1, 2, 3, 4, 5, 6, 7, 8, 9, 100>>)
\* x: 12, 13, 14 present, cutoffs 11 and 15.  y: cutoffs -1.5 and 4.5.
Train == MkFrame(<<"x", "y">>,
                 <<Row(Num(13), Num(0)), Row(NaN, Num(1)),
                   Row(Num(12), Num(3)), Row(Num(14), Num(2))>>)
Test == MkFrame(<<"x", "y">>,
                <<Row(Num(15), Num(0)), Row(Num(10), Num(0)), Row(Num(12), Num(5)),
                  Row(NaN, Num(1)), Row(Num(12), NaN), Row(Num(11), Num(4))>>)

ProbeRows == {Row(x, y) : x \in {NaN, Num(10), Num(15)}, y \in {Num(0), Num(5)}}
\* Frames to filter: every frame of up to MaxRows such rows, and the same
\* without the y column.
Probes ==
    {MkFrame(<<"x", "y">>, rows) :
        rows \in UNION {[1..n -> ProbeRows] : n \in 0..MaxRows}}
    \cup {MkFrame(<<"x">>, rows) :
        rows \in UNION {[1..n -> {[x |-> c] : c \in {NaN, Num(10), Num(15)}}] :
                           n \in 0..MaxRows}}

FreshArgs == {StrArg(n) : n \in Names} \cup {ListArg(cols) : cols \in ColumnLists}
AllArgs == FreshArgs \cup {CallerArg}

\* ---------------------------------------------------------------- actions

\* out.changed is history: a fit that returned replaced columns or statistics
\* that an earlier fit had left on the object.
Idle(op) == [op |-> op, kind |-> "none", ret |-> "none", src |-> "none",
             origin |-> "none", input |-> NoFrame, value |-> NoFrame,
             changed |-> FALSE]

\* self.stats_ holds all five statistics.
FullStats(st) == st.set /\ DOMAIN st.data = StatNames

\* The object holds a fitted state: a column list and statistics for exactly
\* those columns.
FittedState ==
    /\ numerical_columns_.kind # "unset"
    /\ FullStats(stats_)
    /\ Columns(numerical_columns_, caller_columns) = stats_.index

\* fit(df, numerical_columns) on frames[f].
Fit(f, arg) ==
    LET nc   == Normalize(arg, caller_columns)
        cols == Columns(nc, caller_columns)
        df   == frames[f]
        ok   == HasColumns(df, cols)
        st   == StatsAfterFit(df, cols)
    IN  /\ numerical_columns_' = nc
        /\ stats_' = st
        /\ out' = [Idle("fit") EXCEPT !.kind = IF ok THEN "ok" ELSE "KeyError",
                                      !.ret = IF ok THEN FitReturn ELSE "none",
                                      !.src = f, !.origin = f,
                                      !.changed = /\ ok
                                                  /\ FittedState
                                                  /\ <<cols, st>> # <<stats_.index, stats_>>]
        /\ fitted_on' = IF ok THEN [frame |-> f, cols |-> cols] ELSE fitted_on
        /\ UNCHANGED <<frames, caller_columns>>

\* transform(df) on frames[src], or on the frame the previous transform returned.
Transform(src) ==
    /\ src = "prev" => out.op = "transform" /\ out.kind = "ok"
    /\ LET df == IF src = "prev" THEN out.value ELSE frames[src]
           r  == TransformCall(numerical_columns_, stats_, caller_columns, df)
       IN  out' = [Idle("transform") EXCEPT
                      !.kind = r.kind,
                      !.ret = IF r.kind = "ok" THEN "frame" ELSE "none",
                      !.src = src,
                      !.origin = IF src = "prev" THEN out.origin ELSE src,
                      !.input = df,
                      !.value = r.value]
    /\ UNCHANGED <<frames, caller_columns, numerical_columns_, stats_, fitted_on>>

\* The caller's own code: cols.append(n) on the list it once handed to fit.
CallerAppend(n) ==
    /\ n \notin Range(caller_columns)
    /\ caller_columns' = Append(caller_columns, n)
    /\ out' = Idle("list")
    /\ UNCHANGED <<frames, numerical_columns_, stats_, fitted_on>>

\* cols.remove(n)
CallerRemove(n) ==
    /\ n \in Range(caller_columns)
    /\ caller_columns' = SelectSeq(caller_columns, LAMBDA m : m # n)
    /\ out' = Idle("list")
    /\ UNCHANGED <<frames, numerical_columns_, stats_, fitted_on>>

NoFit == [frame |-> "none", cols |-> <<>>]

\* OutlierRemoverIQR() : no attribute is set by construction.
Constructed ==
    /\ numerical_columns_ = Unset
    /\ stats_ = NoStats
    /\ out = Idle("init")
    /\ fitted_on = NoFit

\* The object's life: fits, re-fits, transforms, and a caller that keeps and
\* edits the list it passed.
Init ==
    /\ frames = [train |-> Train, test |-> Test, seven |-> Scenario7, ten |-> Scenario10]
    /\ caller_columns = <<>>
    /\ Constructed

Next ==
    \/ \E f \in DOMAIN frames, arg \in AllArgs : Fit(f, arg)
    \/ \E src \in (DOMAIN frames) \cup {"prev"} : Transform(src)
    \/ \E n \in Names : CallerAppend(n)
    \/ \E n \in Names : CallerRemove(n)

Spec == Init /\ [][Next]_vars

\* fit and transform as functions of their arguments: a reference frame and
\* a frame to filter drawn from bounded sets, the columns passed by value.
InitFn ==
    /\ frames \in {[ref |-> Train, probe |-> p] : p \in Probes}
    /\ caller_columns = <<>>
    /\ Constructed

NextFn ==
    \/ \E f \in DOMAIN frames, arg \in FreshArgs : Fit(f, arg)
    \/ \E src \in (DOMAIN frames) \cup {"prev"} : Transform(src)

SpecFn == InitFn /\ [][NextFn]_vars

\* ----------------------------------------------------------------- claims

SelectedColumns == Columns(numerical_columns_, caller_columns)
Lower == stats_.data["lower_cutoff"]
Upper == stats_.data["upper_cutoff"]

\* A row is inside the cutoffs lo, hi (in eighths) on column c, stated
\* without the model's comparison operators.
Inside(row, c, lo, hi) ==
    /\ row[c] # NaN
    /\ lo[c] # NaN
    /\ hi[c] # NaN
    /\ 8 * row[c][1] \in lo[c][1] .. hi[c][1]

InsideAll(row, cols, lo, hi) == \A c \in Range(cols) : Inside(row, c, lo, hi)

TransformReturned == out.op = "transform" /\ out.kind = "ok"

\* C1: in a fitted state, transform of a frame that has the selected columns
\* returns exactly the rows that, on every selected column, hold a value
\* that is present and lies in [lower_cutoff, upper_cutoff] of that column,
\* both cutoffs included.
C1_KeepIffInsideAll ==
    (out.op = "transform" /\ FittedState /\ HasColumns(out.input, SelectedColumns)) =>
        /\ out.kind = "ok"
        /\ out.value.rows =
              SelectSeq(out.input.rows,
                        LAMBDA r : InsideAll(r, SelectedColumns, Lower, Upper))

\* Two columns are selected; one input row fails on exactly one of them, one
\* has a missing value on a selected column, one sits on a cutoff and is kept.
C1_Witness ==
    /\ TransformReturned
    /\ FittedState
    /\ Len(SelectedColumns) = 2
    /\ \E i \in DOMAIN out.input.rows :
          LET r == out.input.rows[i] IN
          /\ Inside(r, "x", Lower, Upper)
          /\ r["y"] # NaN
          /\ ~Inside(r, "y", Lower, Upper)
    /\ \E i \in DOMAIN out.input.rows : out.input.rows[i]["x"] = NaN
    /\ \E i \in DOMAIN out.value.rows, c \in Names :
          8 * out.value.rows[i][c][1] \in {Lower[c][1], Upper[c][1]}
    /\ Len(out.value.rows) < Len(out.input.rows)

RECURSIVE IsSubSeq(_, _)
IsSubSeq(a, b) ==
    IF a = <<>> THEN TRUE
    ELSE IF b = <<>> THEN FALSE
    ELSE IF Head(a) = Head(b) THEN IsSubSeq(Tail(a), Tail(b))
    ELSE IsSubSeq(a, Tail(b))

\* C6: the frame transform returns has the input's columns, all of them, and
\* its rows are a sub-sequence of the input's rows: none added, none altered,
\* the survivors in their original order.
C6_SubSequenceAllColumns ==
    TransformReturned =>
        /\ out.value.columns = out.input.columns
        /\ \A i \in DOMAIN out.value.rows :
              DOMAIN out.value.rows[i] = Range(out.input.columns)
        /\ IsSubSeq(out.value.rows, out.input.rows)

\* Only x is selected, the input has y too; a row is dropped and at least
\* two different rows survive.
C6_Witness ==
    /\ TransformReturned
    /\ SelectedColumns = <<"x">>
    /\ "y" \in Range(out.input.columns)
    /\ Len(out.value.rows) < Len(out.input.rows)
    /\ Len(out.value.rows) >= 2
    /\ out.value.rows[1] # out.value.rows[2]

\* C10: after a fit with an empty column list, transform returns its input
\* frame whole, every row in place.
C10_EmptyListKeepsAll ==
    (out.op = "transform" /\ FittedState /\ SelectedColumns = <<>>) =>
        /\ out.kind = "ok"
        /\ out.value = out.input

\* The filter was fitted with no column and the frame it is handed has rows,
\* one of them with missing values.
C10_Witness ==
    /\ out.op = "transform"
    /\ FittedState
    /\ SelectedColumns = <<>>
    /\ Len(out.input.rows) >= 2
    /\ \E i \in DOMAIN out.input.rows : out.input.rows[i]["x"] = NaN

\* C7: transform applied to the frame transform has just returned, under the
\* same fitted state, returns that frame again.
C7_Idempotent ==
    TransformReturned =>
        TransformCall(numerical_columns_, stats_, caller_columns, out.value)
            = Returned(out.value)

\* transform was run on its own result, after the first pass had dropped
\* rows and kept some.
C7_Witness ==
    /\ TransformReturned
    /\ out.src = "prev"
    /\ out.value = out.input
    /\ Len(out.value.rows) > 0
    /\ Len(out.value.rows) < Len(frames[out.origin].rows)

\* C8: on an object fit was never called on, transform raises (an
\* AttributeError) and returns no frame, whatever frame it is handed.
C8_UnfittedRaises ==
    numerical_columns_.kind = "unset" =>
        /\ \A f \in DOMAIN frames :
              TransformCall(numerical_columns_, stats_, caller_columns, frames[f]).kind
                  = "AttributeError"
        /\ out.op = "transform" =>
              (out.kind = "AttributeError" /\ out.ret = "none" /\ out.value = NoFrame)

\* transform was called on the never-fitted object, with a frame that has rows.
C8_Witness ==
    /\ numerical_columns_.kind = "unset"
    /\ out.op = "transform"
    /\ out.kind = "AttributeError"
    /\ Len(out.input.rows) > 0

\* The filter still holds what the fit on frame f with columns cols left.
FittedBy(f, cols) ==
    /\ FittedState
    /\ fitted_on = [frame |-> f, cols |-> cols]
    /\ SelectedColumns = cols

Eighths(n) == Num(n)

\* C9: every fit gives IQR = Q3 - Q1, lower = Q1 - 1.5 IQR, upper = Q3 + 1.5 IQR
\* on interpolated quartiles.  On x = [10,12,12,13,12,11,100] the cutoffs are
\* 10 and 14 and transform of the same frame returns the other six rows in
\* order, 10 included; on [1..9,100] Q1 = 3.25, Q3 = 7.75, IQR = 4.5,
\* lower = -3.5, upper = 14.5 and transform drops only 100.
C9_CutoffsAndScenarios ==
    /\ (out.op = "fit" /\ out.kind = "ok") =>
          \A c \in Range(stats_.index) :
              LET q1 == stats_.data["Q1"][c]
                  q3 == stats_.data["Q3"][c]
                  iq == stats_.data["IQR"][c]
              IN  q1 # NaN =>
                     /\ iq[1] = q3[1] - q1[1]
                     /\ 2 * Lower[c][1] = 2 * q1[1] - 3 * iq[1]
                     /\ 2 * Upper[c][1] = 2 * q3[1] + 3 * iq[1]
    /\ FittedBy("seven", <<"x">>) =>
          /\ Lower["x"] = Eighths(8 * 10)
          /\ Upper["x"] = Eighths(8 * 14)
          /\ (out.op = "transform" /\ out.src = "seven") =>
                (out.kind = "ok" /\ out.value = XOnly(<<10, 12, 12, 13, 12, 11>>))
    /\ FittedBy("ten", <<"x">>) =>
          /\ stats_.data["Q1"]["x"] = Eighths(26)        \* 3.25
          /\ stats_.data["Q3"]["x"] = Eighths(62)        \* 7.75
          /\ stats_.data["IQR"]["x"] = Eighths(36)       \* 4.5
          /\ Lower["x"] = Eighths(-28)                   \* -3.5
          /\ Upper["x"] = Eighths(116)                   \* 14.5
          /\ (out.op = "transform" /\ out.src = "ten") =>
                (out.kind = "ok" /\ out.value = XOnly(<<1, 2, 3, 4, 5, 6, 7, 8, 9>>))

\* The filter fitted on the seven-value frame has transformed that frame.
C9_Witness ==
    /\ FittedBy("seven", <<"x">>)
    /\ out.op = "transform"
    /\ out.src = "seven"
    /\ Len(out.value.rows) = 6

\* The cutoffs of the frame and columns the last returning fit was given.
FitTimeCutoffs(name) == FitStats(frames[fitted_on.frame], fitted_on.cols).data[name]

\* C2: a transform call changes neither the fitted state (column list,
\* statistics) nor any frame, and the rows it returns are those inside the
\* cutoffs of the frame fit was given, whichever frame is being filtered.
C2_TransformFrozen ==
    [][out'.op = "transform" =>
          /\ numerical_columns_' = numerical_columns_
          /\ caller_columns' = caller_columns
          /\ stats_' = stats_
          /\ frames' = frames
          /\ out'.kind = "ok" =>
                out'.value.rows =
                    SelectSeq(out'.input.rows,
                              LAMBDA r : InsideAll(r, fitted_on.cols,
                                                   FitTimeCutoffs("lower_cutoff"),
                                                   FitTimeCutoffs("upper_cutoff")))]_vars

\* The filter has transformed a frame other than the one it was fitted on,
\* whose own cutoffs would have been different, and dropped rows from it.
C2_Witness ==
    /\ TransformReturned
    /\ out.src \in DOMAIN frames
    /\ out.src # fitted_on.frame
    /\ FitStats(out.input, SelectedColumns) # stats_
    /\ 0 < Len(out.value.rows)
    /\ Len(out.value.rows) < Len(out.input.rows)

\* What a holder of the object sees of the fitted state.
View == <<SelectedColumns, stats_>>

C4_FailedFitLeavesObject ==
    [][(out'.op = "fit" /\ out'.kind = "KeyError") =>
          /\ numerical_columns_' = numerical_columns_
          /\ stats_' = stats_]_vars

\* C5 as claimed: once fit has returned, the columns transform selects are
\* the ones that have statistics, whatever the caller does to its list.
C5_ColumnsCaptured ==
    FullStats(stats_) => SelectedColumns = stats_.index

====
